---- MODULE Spec2Model ----
(***************************************************************************)
(* Model of git_issue_notifier.py: the IssueMonitor poll cycle             *)
(* (_check_gitlab / _check_github), the notifier (_send_notification) and  *)
(* the driver (start / run_check).                                         *)
(*                                                                         *)
(* A dict is modelled as the sequence of its values in insertion order     *)
(* (issue keys are unique); a comment list is modelled by its length, the  *)
(* only thing the differ reads from it.                                    *)
(* The Korean status tags of the source cannot be written in a TLA+        *)
(* string and are rendered in English (see the Status* definitions).       *)
(***************************************************************************)
EXTENDS Naturals, Sequences, FiniteSets

\* ---------------------------------------------------------------- bounds
\* largest number of comments an issue has
MaxComments == 1

\* issue keys (iid / number)
IssueKeys == {1, 2}

\* the titles an issue can have: the title of issue 1 can be edited, the title
\* of issue 2 stays what it is
Titles(k) == IF k = 1 THEN {"A", "B"} ELSE {"A"}

\* ------------------------------------------------------- program constants
GitlabOpen == "opened"
GithubOpen == "open"
Closed == "closed"

\* payload "status" values
StatusRegistered == "registered"            \* source literal: deung-rok (Korean, 'registration')
StatusUpdated == "updated"                  \* source literal: su-jeong (Korean, 'modification')
StatusReopen == "reopen"
StatusClose == "close"
StatusComment == "comment registered"       \* source literal: 'comment ' + deung-rok

Platforms == {"gitlab", "github"}
Channels == {"slack", "mail", "api"}
\* the values of notification.type the model is run with: unset ("", fallback=None),
\* one of the channels (the three are handled alike: the settings are read, the
\* channel is called, every exception is caught), and an unrecognised one
NotificationTypes == {"", "slack", "sms"}

OpenState(p) == IF p = "gitlab" THEN GitlabOpen ELSE GithubOpen

VARIABLES
  platform,            \* self.platform ("" when [general] platform is missing)
  credentials,         \* TRUE iff the settings of the platform section are all present
  notification_type,   \* config [notification] type
  channel_keys,        \* TRUE iff the settings of the configured channel are all present
  previous_issues,     \* self.previous_issues, values in dict order
  previous_comments,   \* self.previous_comments: key -> number of recorded comments
  pc,                  \* position of the single thread of control: "init", "exited",
                       \* "start", "check", "returned", "schedule", "idle"
  scheduled,           \* the recurring job has been registered (schedule.every(1).minutes.do)
  due,                 \* the recurring job is pending
  issues,              \* local: the fetched issue list (current_issues_map in dict order)
  idx,                 \* local: where the loop over the fetched issues stopped
  events,              \* calls of _send_notification made by the running cycle
  outcome,             \* how the running cycle ended: "" (running), "bootstrap", "diffed",
                       \* "issues_error", "comments_error"
  start_issues,        \* previous_issues when the running cycle started
  start_comments,      \* previous_comments when the running cycle started
  fetched_comments,    \* comment counts fetched by the running cycle: key -> count
  successes,           \* a cycle before the running one ran to completion
  had_issues,          \* the table was non-empty at the end of a cycle before the running one
  last_ok,             \* the cycle before the running one ran to completion   (SpecRepeat)
  last_issues,         \* ... this is the issue list it fetched                 (SpecRepeat)
  last_comments,       \* ... and these are the comment counts it fetched       (SpecRepeat)
  last_created,        \* the issues the cycle before the running one announced as new
                       \*                                                        (SpecRepeat)
  active               \* number of calls of run_check that have not returned

vars == <<platform, credentials, notification_type, channel_keys, previous_issues,
          previous_comments, pc, scheduled, due, issues, idx, events, outcome,
          start_issues, start_comments, fetched_comments,
          successes, had_issues, last_ok, last_issues, last_comments, last_created, active>>

config == <<platform, credentials, notification_type, channel_keys>>
table == <<previous_issues, previous_comments>>
driver == <<scheduled, due>>
history == <<start_issues, start_comments, successes, had_issues, last_ok, last_issues,
             last_comments, last_created, active>>

\* ------------------------------------------------------------ data helpers
EmptyDict == [k \in {} |-> 0]

\* keys of a dict of issues
Keys(d) == {d[i].iid : i \in 1..Len(d)}

\* d[k] for a key that is present
Lookup(d, k) == d[CHOOSE i \in 1..Len(d) : d[i].iid = k]

\* len(self.previous_comments.get(k, []))
RecordedCount(pcs, k) == IF k \in DOMAIN pcs THEN pcs[k] ELSE 0

\* d[k] = v on a dict key -> value
DictSet(d, k, v) == [x \in (DOMAIN d) \cup {k} |-> IF x = k THEN v ELSE d[x]]

Issue(p) ==
  {i \in [iid : IssueKeys, title : UNION {Titles(k) : k \in IssueKeys},
          state : {OpenState(p), Closed}] : i.title \in Titles(i.iid)}

\* the lists the platform can return: issues with pairwise distinct keys, in the
\* platform's default order (newest, i.e. largest key, first)
IssueLists(p) ==
  {<<>>} \cup {<<a>> : a \in Issue(p)}
         \cup {<<a, b>> : <<a, b>> \in {x \in Issue(p) \X Issue(p) : x[1].iid > x[2].iid}}

\* ---------------------------------------------------------------- notifier
\* (_send_notification_InvalidAttempts: _send_notification calling a channel for
\* an unrecognised type too)
\* The ways one call of _send_notification can end.  None of them raises.
\*   "skipped"  type unset: warning, return                     (142-145)
\*   "sent"     the channel call returned                       (158-214)
\*   "invalid"  type not a known channel: warning               (216-217)
\*   "keyerror" a setting of the channel is missing             (219-220)
\*   "error"    the channel call raised                         (221-222)
_send_notification_InvalidAttempts ==
  IF notification_type = "" THEN {"skipped"}
  ELSE IF channel_keys THEN {"sent", "error"} ELSE {"keyerror"}

_send_notification ==
  IF notification_type = "" THEN {"skipped"}
  ELSE IF notification_type \in Channels
       THEN IF channel_keys THEN {"sent", "error"} ELSE {"keyerror"}
       ELSE {"invalid"}

\* a delivery was attempted / failed
Attempted(e) == e.result \in {"sent", "error"}
Failed(e) == e.result \in {"keyerror", "error"}

Event(subject, issue, status, result) ==
  [subject |-> subject, iid |-> issue.iid, status |-> status, result |-> result]

\* ------------------------------------------------------ inputs of one cycle
\* stop: the position, in the fetched list l, of the first issue whose comment
\* fetch raises (0: none does).  cf: the number of comments each fetch returns.
CommentFetches(l, stop) ==
  {cf \in [Keys(l) -> 0..MaxComments] :
     \A i \in 1..Len(l) : (stop # 0 /\ i >= stop) => cf[l[i].iid] = 0}

\* the comment counts the cycle has fetched when it ends
Fetched(l, stop, cf) ==
  [k \in {l[i].iid : i \in {j \in 1..Len(l) : stop = 0 \/ j < stop}} |-> cf[k]]

\* an upper bound of the notifications of one cycle: two per fetched issue, one
\* per issue of the table
MaxSends(prev, l) == 2 * Len(l) + Len(prev)

\* ------------------------------------------------------------------ driver
\* the process is started on a configuration file
Init ==
  /\ platform \in Platforms \cup {""}
  /\ credentials \in BOOLEAN
  /\ notification_type \in NotificationTypes
  /\ channel_keys \in (IF notification_type \in Channels THEN BOOLEAN ELSE {TRUE})
  /\ previous_issues = <<>>
  /\ previous_comments = EmptyDict
  /\ pc = "init"
  /\ scheduled = FALSE
  /\ due = FALSE
  /\ issues = <<>>
  /\ idx = 0
  /\ events = <<>>
  /\ outcome = ""
  /\ start_issues = <<>>
  /\ start_comments = EmptyDict
  /\ fetched_comments = EmptyDict
  /\ successes = FALSE
  /\ had_issues = FALSE
  /\ last_ok = FALSE
  /\ last_issues = <<>>
  /\ last_comments = EmptyDict
  /\ last_created = {}
  /\ active = 0

\* IssueMonitor(): sys.exit(1) when the platform is missing or invalid (92-95) or
\* the client cannot be built from the platform section (101-103, 125-135);
\* the [notification] section is not read
__init__ ==
  /\ pc = "init"
  /\ pc' = IF platform \in Platforms /\ credentials THEN "start" ELSE "exited"
  /\ previous_issues' = <<>>
  /\ previous_comments' = EmptyDict
  /\ UNCHANGED <<config, driver, issues, idx, events, outcome, history, fetched_comments>>

\* entering run_check: the cycle starts on the table as it is now
EnterCheck ==
  /\ pc' = "check"
  /\ start_issues' = previous_issues
  /\ start_comments' = previous_comments
  /\ active' = active + 1
  /\ UNCHANGED <<config, table, issues, idx, events, outcome, fetched_comments,
                 successes, had_issues, last_ok, last_issues, last_comments, last_created>>

\* start(): the first run_check, before the job is registered
start_run_check ==
  /\ pc = "start"
  /\ EnterCheck
  /\ UNCHANGED driver

\* schedule.every(1).minutes.do(self.run_check)
start_schedule ==
  /\ pc = "schedule"
  /\ scheduled' = TRUE
  /\ due' = FALSE
  /\ pc' = "idle"
  /\ UNCHANGED <<config, table, issues, idx, events, outcome, history, fetched_comments>>

\* time.sleep(1) until the minute has passed
sleep ==
  /\ pc = "idle"
  /\ scheduled
  /\ ~due
  /\ due' = TRUE
  /\ UNCHANGED <<config, table, pc, scheduled, issues, idx, events, outcome, history,
                 fetched_comments>>

\* run_pending starting the job whenever it is pending, also while a cycle runs
run_pending_Reentrant ==
  /\ pc \in {"idle", "check", "returned"}
  /\ scheduled
  /\ due
  /\ due' = FALSE
  /\ EnterCheck
  /\ UNCHANGED scheduled

\* schedule.run_pending() with the job pending
run_pending ==
  /\ pc = "idle"
  /\ scheduled
  /\ due
  /\ due' = FALSE
  /\ EnterCheck
  /\ UNCHANGED scheduled

\* a cycle ended by running to completion
Completed == outcome \in {"bootstrap", "diffed"}

\* the minute of the recurring job elapses while a cycle is still running
overrun ==
  /\ pc \in {"check", "returned"}
  /\ scheduled
  /\ ~due
  /\ due' = TRUE
  /\ UNCHANGED <<config, table, pc, scheduled, issues, idx, events, outcome, history,
                 fetched_comments>>

\* run_check returns to its caller; the locals of the check are gone.  When the
\* caller is the scheduler, the job's next run is set one minute from now.
\* remember: also record what the cycle fetched, for the next cycle to be compared with
Return(remember) ==
  /\ pc = "returned"
  /\ pc' = IF scheduled THEN "idle" ELSE "schedule"
  /\ issues' = <<>>
  /\ idx' = 0
  /\ events' = <<>>
  /\ outcome' = ""
  /\ start_issues' = <<>>
  /\ start_comments' = EmptyDict
  /\ fetched_comments' = EmptyDict
  /\ successes' = (successes \/ Completed)
  /\ had_issues' = (had_issues \/ previous_issues # <<>>)
  /\ IF remember
     THEN /\ last_ok' = Completed
          /\ last_issues' = IF Completed THEN issues ELSE <<>>
          /\ last_comments' = IF Completed THEN fetched_comments ELSE EmptyDict
          /\ last_created' = {issues[i] : i \in {j \in 1..Len(issues) :
                                   \E e \in 1..Len(events) :
                                     /\ events[e].iid = issues[j].iid
                                     /\ events[e].status = StatusRegistered}}
     ELSE UNCHANGED <<last_ok, last_issues, last_comments, last_created>>
  /\ active' = active - 1
  /\ due' = FALSE
  /\ UNCHANGED <<config, table, scheduled>>

run_check_return == Return(FALSE)

run_check_return_remember == Return(TRUE)

\* ------------------------------------------------------------ _check_gitlab
\* GitlabSeed with the recording of the fetched comments left out
GitlabSeed_NoRecord(i, l, stop, cf, pcs) == pcs

\* bootstrap: the loop recording the comments of each fetched issue, from
\* position i on, until a comment fetch raises
RECURSIVE GitlabSeed(_, _, _, _, _)
GitlabSeed(i, l, stop, cf, pcs) ==
  IF i > Len(l) \/ i = stop THEN pcs
  ELSE GitlabSeed(i + 1, l, stop, cf, DictSet(pcs, l[i].iid, cf[l[i].iid]))

\* GitlabStatusEvent without the reopen test: every change is an update
GitlabStatusEvent_NoReopen(prev, issue, result) ==
  IF issue.iid \notin Keys(prev)
  THEN <<Event("GitLab New Issue Alert", issue, StatusRegistered, result)>>
  ELSE LET prev_issue == Lookup(prev, issue.iid) IN
       IF issue.state # prev_issue.state \/ issue.title # prev_issue.title
       THEN <<Event("GitLab Issue Update Alert", issue,
                    IF issue.state # "closed" THEN StatusUpdated ELSE StatusClose,
                    result)>>
       ELSE <<>>

\* GitlabStatusEvent comparing the state only, not the title
GitlabStatusEvent_StateOnly(prev, issue, result) ==
  IF issue.iid \notin Keys(prev)
  THEN <<Event("GitLab New Issue Alert", issue, StatusRegistered, result)>>
  ELSE LET prev_issue == Lookup(prev, issue.iid) IN
       IF issue.state # prev_issue.state
       THEN IF prev_issue.state = "closed" /\ issue.state = "opened"
            THEN <<Event("GitLab Issue Reopened Alert", issue, StatusReopen, result)>>
            ELSE <<Event("GitLab Issue Update Alert", issue,
                         IF issue.state # "closed" THEN StatusUpdated ELSE StatusClose,
                         result)>>
       ELSE <<>>

\* the notification, if any, for the title and state of a fetched issue
GitlabStatusEvent(prev, issue, result) ==
  IF issue.iid \notin Keys(prev)
  THEN <<Event("GitLab New Issue Alert", issue, StatusRegistered, result)>>
  ELSE LET prev_issue == Lookup(prev, issue.iid) IN
       IF issue.state # prev_issue.state \/ issue.title # prev_issue.title
       THEN IF prev_issue.state = "closed" /\ issue.state = "opened"
            THEN <<Event("GitLab Issue Reopened Alert", issue, StatusReopen, result)>>
            ELSE <<Event("GitLab Issue Update Alert", issue,
                         IF issue.state # "closed" THEN StatusUpdated ELSE StatusClose,
                         result)>>
       ELSE <<>>

\* GitlabComments recording the new comments only when the notification was delivered
GitlabComments_RecordIfSent(acc, issue, n, result) ==
  IF n > RecordedCount(acc.comments, issue.iid)
  THEN [events |-> acc.events
                     \o <<Event("GitLab New Comment Alert", issue, StatusComment, result)>>,
        comments |-> IF result = "sent" THEN DictSet(acc.comments, issue.iid, n)
                     ELSE acc.comments]
  ELSE acc

\* GitlabComments announcing the new comments without recording them
GitlabComments_NoRecord(acc, issue, n, result) ==
  IF n > RecordedCount(acc.comments, issue.iid)
  THEN [events |-> acc.events
                     \o <<Event("GitLab New Comment Alert", issue, StatusComment, result)>>,
        comments |-> acc.comments]
  ELSE acc

\* the comment check of a fetched issue whose comment fetch returned n comments:
\* acc holds the notifications made so far and self.previous_comments
GitlabComments(acc, issue, n, result) ==
  IF n > RecordedCount(acc.comments, issue.iid)
  THEN [events |-> acc.events
                     \o <<Event("GitLab New Comment Alert", issue, StatusComment, result)>>,
        comments |-> DictSet(acc.comments, issue.iid, n)]
  ELSE acc

\* GitlabDiff walking the fetched issues from the last one to the first
RECURSIVE GitlabDiff_Backwards(_, _, _, _, _, _, _)
GitlabDiff_Backwards(i, l, stop, cf, rs, acc, prev) ==
  IF i > Len(l) THEN acc
  ELSE LET issue == l[Len(l) + 1 - i]
           status_event == GitlabStatusEvent(prev, issue, rs[Len(acc.events) + 1])
           checked == [acc EXCEPT !.events = acc.events \o status_event]
       IN IF Len(l) + 1 - i = stop THEN checked
          ELSE GitlabDiff_Backwards(i + 1, l, stop, cf, rs,
                                    GitlabComments(checked, issue, cf[issue.iid],
                                                   rs[Len(checked.events) + 1]),
                                    prev)

\* the loop over current_issues_map, from position i on, until a comment fetch
\* raises; rs[j] is the result of the j-th call of _send_notification and prev is
\* self.previous_issues
RECURSIVE GitlabDiff(_, _, _, _, _, _, _)
GitlabDiff(i, l, stop, cf, rs, acc, prev) ==
  IF i > Len(l) THEN acc
  ELSE LET issue == l[i]
           status_event == GitlabStatusEvent(prev, issue, rs[Len(acc.events) + 1])
           checked == [acc EXCEPT !.events = acc.events \o status_event]
       IN IF i = stop THEN checked
          ELSE GitlabDiff(i + 1, l, stop, cf, rs,
                          GitlabComments(checked, issue, cf[issue.iid],
                                         rs[Len(checked.events) + 1]),
                          prev)

\* GitlabClosedEvents giving up at the first notification that fails
RECURSIVE GitlabClosedEvents_StopOnFailure(_, _, _)
GitlabClosedEvents_StopOnFailure(prev, cur, rs) ==
  IF prev = <<>> THEN <<>>
  ELSE LET issue == Head(prev) IN
       IF issue.iid \notin Keys(cur)
       THEN <<Event("GitLab Issue Closed Alert", issue, StatusClose, Head(rs))>>
              \o (IF Head(rs) \in {"error", "keyerror"} THEN <<>>
                  ELSE GitlabClosedEvents_StopOnFailure(Tail(prev), cur, Tail(rs)))
       ELSE GitlabClosedEvents_StopOnFailure(Tail(prev), cur, rs)

\* the notifications of the loop over self.previous_issues: one per issue that is
\* no longer fetched, in the order of the previous table; rs holds the results of
\* the calls
RECURSIVE GitlabClosedEvents(_, _, _)
GitlabClosedEvents(prev, cur, rs) ==
  IF prev = <<>> THEN <<>>
  ELSE LET issue == Head(prev) IN
       IF issue.iid \notin Keys(cur)
       THEN <<Event("GitLab Issue Closed Alert", issue, StatusClose, Head(rs))>>
              \o GitlabClosedEvents(Tail(prev), cur, Tail(rs))
       ELSE GitlabClosedEvents(Tail(prev), cur, rs)

\* GitlabCommit keeping the entries of the issues that are no longer fetched
GitlabCommit_KeepGone(cur) ==
  cur \o SelectSeq(previous_issues, LAMBDA i : i.iid \notin Keys(cur))

\* GitlabCommit forgetting to replace the table
GitlabCommit_Stale(cur) == previous_issues

\* the table the check commits: self.previous_issues = current_issues_map
GitlabCommit(cur) == cur

\* the number of calls of _send_notification the cycle makes on these inputs
GitlabSends(l, stop, cf) ==
  LET delivered == [j \in 1..MaxSends(previous_issues, l) |-> "sent"]
      diffed == GitlabDiff(1, l, stop, cf, delivered,
                          [events |-> <<>>, comments |-> previous_comments],
                          previous_issues)
  IN Len(diffed.events)
       + (IF stop = 0 THEN Cardinality(Keys(previous_issues) \ Keys(l)) ELSE 0)

\* one call of _check_gitlab
_check_gitlab ==
  /\ pc = "check"
  /\ platform = "gitlab"
  /\ pc' = "returned"
  /\ \/ \* project.issues.list raises
        /\ outcome' = "issues_error"
        /\ UNCHANGED <<table, issues, idx, events, fetched_comments>>
     \/ \E l \in IssueLists("gitlab") :
        \E stop \in 0..Len(l) :
        \E cf \in CommentFetches(l, stop) :
          /\ issues' = l
          /\ idx' = IF stop = 0 THEN Len(l) + 1 ELSE stop
          /\ fetched_comments' = Fetched(l, stop, cf)
          /\ IF previous_issues = <<>>
             THEN \* bootstrap
                  /\ previous_issues' = l
                  /\ previous_comments' = GitlabSeed(1, l, stop, cf, previous_comments)
                  /\ outcome' = IF stop = 0 THEN "bootstrap" ELSE "comments_error"
                  /\ UNCHANGED events
             ELSE \E rs \in [1..GitlabSends(l, stop, cf) -> _send_notification] :
                    LET diffed == GitlabDiff(1, l, stop, cf, rs,
                                             [events |-> events,
                                              comments |-> previous_comments],
                                             previous_issues)
                    IN /\ previous_comments' = diffed.comments
                       /\ IF stop # 0
                          THEN \* a comment fetch raised: the except clause
                               /\ events' = diffed.events
                               /\ outcome' = "comments_error"
                               /\ UNCHANGED previous_issues
                          ELSE /\ events' = diffed.events
                                    \o GitlabClosedEvents(previous_issues, l,
                                         SubSeq(rs, Len(diffed.events) + 1, Len(rs)))
                               /\ previous_issues' = GitlabCommit(l)
                               /\ outcome' = "diffed"
  /\ UNCHANGED <<config, driver, history>>

\* bootstrap: the loop recording the comments of each fetched issue, from
\* position i on, until a comment fetch raises
RECURSIVE GithubSeed(_, _, _, _, _)
GithubSeed(i, l, stop, cf, pcs) ==
  IF i > Len(l) \/ i = stop THEN pcs
  ELSE GithubSeed(i + 1, l, stop, cf, DictSet(pcs, l[i].iid, cf[l[i].iid]))

\* GithubStatusEvent testing for GitLab's open state in the reopen test
GithubStatusEvent_GitlabState(prev, issue, result) ==
  IF issue.iid \notin Keys(prev)
  THEN <<Event("GitHub New Issue Alert", issue, StatusRegistered, result)>>
  ELSE LET prev_issue == Lookup(prev, issue.iid) IN
       IF issue.state # prev_issue.state \/ issue.title # prev_issue.title
       THEN IF prev_issue.state = "closed" /\ issue.state = "opened"
            THEN <<Event("GitHub Issue Reopened Alert", issue, StatusReopen, result)>>
            ELSE <<Event("GitHub Issue Update Alert", issue,
                         IF issue.state # "closed" THEN StatusUpdated ELSE StatusClose,
                         result)>>
       ELSE <<>>

\* the notification, if any, for the title and state of a fetched issue
GithubStatusEvent(prev, issue, result) ==
  IF issue.iid \notin Keys(prev)
  THEN <<Event("GitHub New Issue Alert", issue, StatusRegistered, result)>>
  ELSE LET prev_issue == Lookup(prev, issue.iid) IN
       IF issue.state # prev_issue.state \/ issue.title # prev_issue.title
       THEN IF prev_issue.state = "closed" /\ issue.state = "open"
            THEN <<Event("GitHub Issue Reopened Alert", issue, StatusReopen, result)>>
            ELSE <<Event("GitHub Issue Update Alert", issue,
                         IF issue.state # "closed" THEN StatusUpdated ELSE StatusClose,
                         result)>>
       ELSE <<>>

\* the comment check of a fetched issue whose comment fetch returned n comments:
\* acc holds the notifications made so far and self.previous_comments
GithubComments(acc, issue, n, result) ==
  IF n > RecordedCount(acc.comments, issue.iid)
  THEN [events |-> acc.events
                     \o <<Event("GitHub New Comment Alert", issue, StatusComment, result)>>,
        comments |-> DictSet(acc.comments, issue.iid, n)]
  ELSE acc

\* the loop over current_issues_map, from position i on, until a comment fetch
\* raises; rs[j] is the result of the j-th call of _send_notification and prev is
\* self.previous_issues
RECURSIVE GithubDiff(_, _, _, _, _, _, _)
GithubDiff(i, l, stop, cf, rs, acc, prev) ==
  IF i > Len(l) THEN acc
  ELSE LET issue == l[i]
           status_event == GithubStatusEvent(prev, issue, rs[Len(acc.events) + 1])
           checked == [acc EXCEPT !.events = acc.events \o status_event]
       IN IF i = stop THEN checked
          ELSE GithubDiff(i + 1, l, stop, cf, rs,
                          GithubComments(checked, issue, cf[issue.iid],
                                         rs[Len(checked.events) + 1]),
                          prev)

\* the notifications of the loop over self.previous_issues: one per issue that is
\* no longer fetched, in the order of the previous table; rs holds the results of
\* the calls
RECURSIVE GithubClosedEvents(_, _, _)
GithubClosedEvents(prev, cur, rs) ==
  IF prev = <<>> THEN <<>>
  ELSE LET issue == Head(prev) IN
       IF issue.iid \notin Keys(cur)
       THEN <<Event("GitHub Issue Closed Alert", issue, StatusClose, Head(rs))>>
              \o GithubClosedEvents(Tail(prev), cur, Tail(rs))
       ELSE GithubClosedEvents(Tail(prev), cur, rs)

\* the table the check commits: self.previous_issues = current_issues_map
GithubCommit(cur) == cur

\* the number of calls of _send_notification the cycle makes on these inputs
GithubSends(l, stop, cf) ==
  LET delivered == [j \in 1..MaxSends(previous_issues, l) |-> "sent"]
      diffed == GithubDiff(1, l, stop, cf, delivered,
                          [events |-> <<>>, comments |-> previous_comments],
                          previous_issues)
  IN Len(diffed.events)
       + (IF stop = 0 THEN Cardinality(Keys(previous_issues) \ Keys(l)) ELSE 0)

\* one call of _check_github
_check_github ==
  /\ pc = "check"
  /\ platform = "github"
  /\ pc' = "returned"
  /\ \/ \* repo.get_issues raises
        /\ outcome' = "issues_error"
        /\ UNCHANGED <<table, issues, idx, events, fetched_comments>>
     \/ \E l \in IssueLists("github") :
        \E stop \in 0..Len(l) :
        \E cf \in CommentFetches(l, stop) :
          /\ issues' = l
          /\ idx' = IF stop = 0 THEN Len(l) + 1 ELSE stop
          /\ fetched_comments' = Fetched(l, stop, cf)
          /\ IF previous_issues = <<>>
             THEN \* bootstrap
                  /\ previous_issues' = l
                  /\ previous_comments' = GithubSeed(1, l, stop, cf, previous_comments)
                  /\ outcome' = IF stop = 0 THEN "bootstrap" ELSE "comments_error"
                  /\ UNCHANGED events
             ELSE \E rs \in [1..GithubSends(l, stop, cf) -> _send_notification] :
                    LET diffed == GithubDiff(1, l, stop, cf, rs,
                                             [events |-> events,
                                              comments |-> previous_comments],
                                             previous_issues)
                    IN /\ previous_comments' = diffed.comments
                       /\ IF stop # 0
                          THEN \* a comment fetch raised: the except clause
                               /\ events' = diffed.events
                               /\ outcome' = "comments_error"
                               /\ UNCHANGED previous_issues
                          ELSE /\ events' = diffed.events
                                    \o GithubClosedEvents(previous_issues, l,
                                         SubSeq(rs, Len(diffed.events) + 1, Len(rs)))
                               /\ previous_issues' = GithubCommit(l)
                               /\ outcome' = "diffed"
  /\ UNCHANGED <<config, driver, history>>

Next ==
  \/ __init__
  \/ start_run_check
  \/ start_schedule
  \/ sleep
  \/ run_pending
  \/ run_check_return
  \/ _check_gitlab
  \/ _check_github

Spec == Init /\ [][Next]_vars

\* The same program, with the notifier left unconfigured and every cycle's fetch
\* remembered for the next cycle to be compared with.
InitRepeat == Init /\ notification_type = ""

NextRepeat ==
  \/ __init__
  \/ start_run_check
  \/ start_schedule
  \/ sleep
  \/ run_pending
  \/ run_check_return_remember
  \/ _check_gitlab
  \/ _check_github

SpecRepeat == InitRepeat /\ [][NextRepeat]_vars

\* the driver with the minute allowed to elapse during a cycle
NextTimer ==
  \/ Next
  \/ overrun

SpecTimer == InitRepeat /\ [][NextTimer]_vars

TypeOK == pc \in {"init", "exited", "start", "check", "returned", "schedule", "idle"}

\* ================================================================== claims
\* the kind of change event a notification announces, read off its subject
Kind(e) ==
  IF e.subject \in {"GitLab New Issue Alert", "GitHub New Issue Alert"} THEN "Created"
  ELSE IF e.subject \in {"GitLab Issue Reopened Alert", "GitHub Issue Reopened Alert"}
       THEN "Reopened"
  ELSE IF e.subject \in {"GitLab Issue Update Alert", "GitHub Issue Update Alert"}
       THEN "TitleOrStateChanged"
  ELSE IF e.subject \in {"GitLab New Comment Alert", "GitHub New Comment Alert"}
       THEN "CommentAdded"
  ELSE "Closed"

\* the events of one kind the running cycle has emitted for key k
EventsOf(k, kind) == {i \in 1..Len(events) : events[i].iid = k /\ Kind(events[i]) = kind}
Count(k, kind) == Cardinality(EventsOf(k, kind))

\* the running cycle is over
CycleOver == pc = "returned"

\* the running cycle is the first one of the process
FirstCycle == ~scheduled

\* the running cycle fetched the issues and diffed them against a non-empty table
NonBootstrapCycle == start_issues # <<>> /\ outcome \in {"diffed", "comments_error"}

\* the running cycle fetched some issues and took the bootstrap branch: it seeded
\* the table with them and announced none  (a cycle that fetches nothing on an
\* empty table does the same in either branch)
BootstrapCycle ==
  start_issues = <<>> /\ issues # <<>> /\ outcome \in {"bootstrap", "comments_error"}

\* C1: in the first poll cycle of a process, when the issue fetch and every
\* comment fetch succeed, no notification is sent, and afterwards
\* previous_issues is exactly the fetched issues and the recorded comments of
\* every fetched issue are the ones fetched in that cycle.
C1_FirstCycleSeedsSilently ==
  /\ FirstCycle => events = <<>>
  /\ (CycleOver /\ FirstCycle /\ outcome \notin {"issues_error", "comments_error"}) =>
       /\ outcome = "bootstrap"
       /\ previous_issues = issues
       /\ \A k \in Keys(issues) :
            /\ k \in DOMAIN fetched_comments
            /\ k \in DOMAIN previous_comments
            /\ previous_comments[k] = fetched_comments[k]

C1_Witness ==
  /\ CycleOver /\ FirstCycle /\ outcome = "bootstrap"
  /\ Len(issues) = 2
  /\ \E k \in Keys(issues) : previous_comments[k] > 0

\* C2: in any poll cycle after the first successful one, every issue key that
\* is in the fetched set and absent from the previous table yields exactly one
\* Created event, with status tag 'registered', in that cycle.  (Stated for the
\* cycles that run to completion.)
C2_NewKeyYieldsCreated ==
  (CycleOver /\ successes /\ Completed) =>
    \A k \in Keys(issues) \ Keys(start_issues) :
      /\ Count(k, "Created") = 1
      /\ \A i \in EventsOf(k, "Created") : events[i].status = StatusRegistered

\* C3: the bootstrap branch runs at most once per process: once the table has
\* been non-empty, no later cycle is treated as bootstrap, even when the table
\* has become empty again.
C3_BootstrapOnlyOnce == ~(CycleOver /\ BootstrapCycle /\ had_issues)

\* key k is in both the table the cycle started on and the fetch
InBoth(k) == k \in Keys(start_issues) /\ k \in Keys(issues)

\* the loop over the fetched issues has reached key k (its title and state have been
\* compared): idx stays on the issue whose comment fetch raised
Reached(k) == \E i \in 1..Len(issues) : issues[i].iid = k /\ i <= idx

\* k was closed in the table and is fetched open
ReopenCase(k) ==
  /\ InBoth(k)
  /\ Lookup(start_issues, k).state = Closed
  /\ Lookup(issues, k).state = OpenState(platform)

\* the state or the title of k differs, and it is not the closed-to-open case
ChangeCase(k) ==
  /\ InBoth(k)
  /\ \/ Lookup(start_issues, k).state # Lookup(issues, k).state
     \/ Lookup(start_issues, k).title # Lookup(issues, k).title
  /\ ~ReopenCase(k)

C6_CommentAdded ==
  \A i \in 1..Len(events) :
    Kind(events[i]) = "CommentAdded" =>
      LET k == events[i].iid IN
      /\ \A j \in 1..Len(events) :
           (Kind(events[j]) = "CommentAdded" /\ events[j].iid = k) => j = i
      /\ k \in DOMAIN fetched_comments
      /\ fetched_comments[k] > (IF k \in DOMAIN start_comments THEN start_comments[k] ELSE 0)
      /\ k \in DOMAIN previous_comments
      /\ previous_comments[k] = fetched_comments[k]

C6_Witness ==
  /\ CycleOver
  /\ \E i \in 1..Len(events) :
       /\ Kind(events[i]) = "CommentAdded"
       /\ Failed(events[i])
       /\ events[i].iid \in DOMAIN start_comments
       /\ previous_comments[events[i].iid] > start_comments[events[i].iid]

\* C7: in a non-bootstrap cycle that completes, every issue key of the previous
\* table that is absent from the fetch yields exactly one Closed event and is
\* absent from the committed table; a Closed event is only ever emitted for a
\* key of the table, so the key yields no further one while it stays absent.
C7_ClosedOnce ==
  /\ (CycleOver /\ outcome = "diffed") =>
       \A k \in Keys(start_issues) \ Keys(issues) :
         /\ Count(k, "Closed") = 1
         /\ k \notin Keys(previous_issues)
  /\ \A i \in 1..Len(events) :
       Kind(events[i]) = "Closed" =>
         events[i].iid \in Keys(start_issues) /\ events[i].iid \notin Keys(issues)

C7_Witness ==
  /\ CycleOver /\ outcome = "diffed"
  /\ issues # <<>>
  /\ \E k \in Keys(start_issues) \ Keys(issues) :
       Count(k, "Closed") = 1 /\ k \notin Keys(previous_issues)

\* C8: after a cycle that ran to completion, a cycle whose fetched issues and
\* comment counts are identical to the ones that cycle fetched emits no event
\* and leaves the table and the recorded comments unchanged; more generally an
\* issue fetched by both cycles with identical title, state and comment count
\* produces no event.
C8_Idempotent ==
  (CycleOver /\ last_ok /\ outcome # "issues_error") =>
    /\ ( /\ issues = last_issues
         /\ \A k \in Keys(issues) :
              k \in DOMAIN fetched_comments /\ fetched_comments[k] = last_comments[k] )
       => /\ Completed
          /\ events = <<>>
          /\ previous_issues = start_issues
          /\ previous_comments = start_comments
    /\ \A k \in Keys(issues) \cap Keys(last_issues) :
         ( /\ Lookup(issues, k) = Lookup(last_issues, k)
           /\ k \in DOMAIN fetched_comments
           /\ fetched_comments[k] = last_comments[k] )
         => \A i \in 1..Len(events) : events[i].iid # k

C8_Witness ==
  /\ CycleOver /\ last_ok /\ outcome = "diffed"
  /\ Len(issues) = 2
  /\ issues = last_issues
  /\ fetched_comments = last_comments
  /\ \E k \in Keys(issues) : fetched_comments[k] > 0
  /\ \E k \in Keys(issues) :
       k \in DOMAIN previous_comments /\ fetched_comments[k] < previous_comments[k]
  /\ events = <<>>

\* C9: if fetching the comments of an issue raises during a poll cycle, the
\* cycle is aborted with no partial update: previous_issues and the recorded
\* comment count of every issue are what they were when the cycle started.
C9_AbortLeavesTableUntouched ==
  (CycleOver /\ outcome = "comments_error") =>
    /\ previous_issues = start_issues
    /\ \A k \in IssueKeys :
         RecordedCount(previous_comments, k) = RecordedCount(start_comments, k)

\* the kinds of the events of key k, in the order the running cycle emitted them
KindsOf(k) ==
  LET mine == SelectSeq(events, LAMBDA e : e.iid = k)
  IN [i \in 1..Len(mine) |-> Kind(mine[i])]

\* the kinds of the events the inputs of the running cycle call for, for key k
ExpectedKinds(k) ==
  (IF k \in Keys(issues) /\ Reached(k)
   THEN IF k \notin Keys(start_issues) THEN <<"Created">>
        ELSE IF ReopenCase(k) THEN <<"Reopened">>
        ELSE IF ChangeCase(k) THEN <<"TitleOrStateChanged">>
        ELSE <<>>
   ELSE <<>>)
  \o (IF /\ k \in DOMAIN fetched_comments
         /\ fetched_comments[k] > (IF k \in DOMAIN start_comments THEN start_comments[k] ELSE 0)
      THEN <<"CommentAdded">> ELSE <<>>)
  \o (IF outcome = "diffed" /\ k \in Keys(start_issues) /\ k \notin Keys(issues)
      THEN <<"Closed">> ELSE <<>>)

\* the comment count the inputs of the running cycle call for, for key k
ExpectedCount(k) ==
  LET before == IF k \in DOMAIN start_comments THEN start_comments[k] ELSE 0
  IN IF k \in DOMAIN fetched_comments /\ fetched_comments[k] > before
     THEN fetched_comments[k] ELSE before

\* C10: a notification delivery that fails (the channel call raises, or a
\* channel setting is missing) is swallowed: the cycle is ended by nothing but a
\* fetch that raises, every event its inputs call for is still sent, and it
\* commits the table and the counts it commits when every delivery succeeds.
C10_FailedDeliverySwallowed ==
  (CycleOver /\ \E i \in 1..Len(events) : Failed(events[i])) =>
    /\ NonBootstrapCycle
    /\ \A k \in IssueKeys :
         /\ KindsOf(k) = ExpectedKinds(k)
         /\ (IF k \in DOMAIN previous_comments THEN previous_comments[k] ELSE 0)
              = ExpectedCount(k)
    /\ outcome = "diffed" => previous_issues = issues
    /\ outcome = "comments_error" => previous_issues = start_issues

C10_Witness ==
  /\ CycleOver /\ outcome = "diffed"
  /\ Len(events) >= 3
  /\ events[1].result = "error"
  /\ events[2].result = "sent"
  /\ Kind(events[Len(events)]) = "Closed"
  /\ previous_issues = issues

\* C11: when notification.type is unset or is not one of the recognised
\* channels, no delivery is attempted for any change event of the cycle; the
\* cycle still sends every event its inputs call for through the notifier and,
\* unless a fetch raises, commits the fetched issues as its table.
C11_NoChannelNoDelivery ==
  notification_type \notin Channels =>
    /\ \A i \in 1..Len(events) : ~Attempted(events[i]) /\ ~Failed(events[i])
    /\ (CycleOver /\ NonBootstrapCycle) =>
         \A k \in IssueKeys : KindsOf(k) = ExpectedKinds(k)
    /\ (CycleOver /\ Completed) => previous_issues = issues

C11_Witness ==
  /\ CycleOver /\ outcome = "diffed"
  /\ notification_type = ""
  /\ Len(events) >= 2
  /\ previous_issues = issues
  /\ previous_issues # start_issues

\* C12: a poll cycle that fails on a fetch error leaves the table and the
\* recorded comments as they were when it started, so that every cycle that
\* starts on a non-empty table starts on a table a completed cycle has committed.
C12_FailedCycleLeavesTable ==
  /\ (CycleOver /\ outcome \in {"issues_error", "comments_error"}) =>
       previous_issues = start_issues /\ previous_comments = start_comments
  /\ (pc \in {"check", "returned"} /\ start_issues # <<>>) => successes

\* the position of key k in the fetched list
Pos(k) == CHOOSE i \in 1..Len(issues) : issues[i].iid = k

\* C13: within one cycle, every event of an issue that is in the fetch comes
\* before every Closed event of an issue that is absent from it, and the events
\* of the fetched issues follow the order of the fetched list.
C13_PresentBeforeAbsent ==
  /\ \A i \in 1..Len(events) :
       IF Kind(events[i]) = "Closed"
       THEN events[i].iid \notin Keys(issues)
       ELSE events[i].iid \in Keys(issues)
  /\ \A i, j \in 1..Len(events) :
       i < j =>
         /\ Kind(events[i]) = "Closed" => Kind(events[j]) = "Closed"
         /\ (Kind(events[i]) # "Closed" /\ Kind(events[j]) # "Closed") =>
              Pos(events[i].iid) <= Pos(events[j].iid)

C13_Witness ==
  /\ CycleOver /\ NonBootstrapCycle
  /\ Len(events) = 3
  /\ Kind(events[1]) # "Closed"
  /\ Kind(events[2]) = "CommentAdded"
  /\ Kind(events[3]) = "Closed"

\* several fetched issues have events, in the order of the fetch
C13_WitnessOrder ==
  /\ CycleOver /\ NonBootstrapCycle
  /\ Len(events) = 4
  /\ events[1].iid = issues[1].iid
  /\ events[4].iid = issues[2].iid

\* C14: poll cycles never overlap: at most one call of run_check is active, and
\* one is active exactly while the thread is inside the check; the recurring job
\* is registered only after the initial cycle has returned; and a cycle that is
\* still running when the minute elapses is not re-entered.
C14_NoOverlap ==
  /\ active <= 1
  /\ active = 1 <=> pc \in {"check", "returned"}
  /\ scheduled => pc \in {"idle", "check", "returned"}
  /\ ~scheduled => ~due
  /\ pc = "schedule" => active = 0

\* a scheduled cycle is still running, alone, when the minute has elapsed again
C14_Witness ==
  /\ pc = "returned"
  /\ scheduled
  /\ due
  /\ active = 1
  /\ outcome = "diffed"

\* C15: a missing required configuration key (platform, platform credentials,
\* notification type, or a setting of the configured notification channel) ends
\* the process at startup: no poll cycle is ever run on such a configuration.
C15_MissingKeyIsFatal ==
  ( \/ platform \notin Platforms
    \/ ~credentials
    \/ notification_type = ""
    \/ (notification_type \in Channels /\ ~channel_keys) )
  => pc \in {"init", "exited"}

\* C16: no change event is emitted in any cycle up to and including the first
\* cycle that completes, also when earlier cycles were aborted; that first
\* completed cycle seeds the table and the comment count of every fetched issue
\* from its own fetch.
C16_SilentUntilFirstSuccess ==
  /\ ~successes => events = <<>>
  /\ (CycleOver /\ ~successes /\ Completed) =>
       /\ previous_issues = issues
       /\ \A k \in Keys(issues) :
            /\ k \in DOMAIN previous_comments
            /\ previous_comments[k] = fetched_comments[k]

\* C17 (as stated): after every completed cycle the recorded comment count of
\* each fetched issue equals the count fetched in that cycle, also when the
\* count went down; so that whenever the fetched count of an issue rises from N
\* in one completed cycle to M > N in the next, exactly one CommentAdded event is
\* emitted and the recorded count becomes M.
C17_RecordedEqualsFetched ==
  (CycleOver /\ Completed) =>
    \A k \in Keys(issues) :
      /\ RecordedCount(previous_comments, k) = fetched_comments[k]
      /\ ( /\ last_ok
           /\ k \in DOMAIN last_comments
           /\ fetched_comments[k] > last_comments[k] )
         => /\ Count(k, "CommentAdded") = 1
            /\ RecordedCount(previous_comments, k) = fetched_comments[k]

\* C17 (amended): after every completed cycle the recorded comment count of each
\* fetched issue is at least the count fetched in that cycle: a cycle that diffs
\* records the fetched count only when it exceeds the count recorded before (a
\* count that went down is not recorded), and then, and only then, emits exactly
\* one CommentAdded event; a cycle that seeds the table records the fetched count.
C17_RecordedFollowsFetched ==
  (CycleOver /\ Completed) =>
    \A k \in Keys(issues) :
      LET before == IF k \in DOMAIN start_comments THEN start_comments[k] ELSE 0
          after == IF k \in DOMAIN previous_comments THEN previous_comments[k] ELSE 0
      IN /\ after >= fetched_comments[k]
         /\ outcome = "bootstrap" =>
              after = fetched_comments[k] /\ Count(k, "CommentAdded") = 0
         /\ (outcome = "diffed" /\ fetched_comments[k] > before) =>
              after = fetched_comments[k] /\ Count(k, "CommentAdded") = 1
         /\ (outcome = "diffed" /\ fetched_comments[k] <= before) =>
              after = before /\ Count(k, "CommentAdded") = 0

\* one issue's count went down and is not recorded, another's went up and is
C17_Witness ==
  /\ CycleOver /\ outcome = "diffed" /\ last_ok
  /\ \E k \in Keys(issues) :
       /\ k \in DOMAIN last_comments
       /\ fetched_comments[k] < last_comments[k]
       /\ previous_comments[k] = last_comments[k]
  /\ \E k \in Keys(issues) :
       /\ k \in DOMAIN last_comments
       /\ fetched_comments[k] > last_comments[k]
       /\ previous_comments[k] = fetched_comments[k]
       /\ Count(k, "CommentAdded") = 1

\* C18: in a cycle that diffs, every issue that yields Created and has at least
\* one fetched comment also yields one CommentAdded event, after its Created
\* event: an issue absent from the table is compared against a count of 0.
C18_NewIssueCommentsAnnounced ==
  (CycleOver /\ NonBootstrapCycle) =>
    \A k \in IssueKeys :
      ( /\ Count(k, "Created") >= 1
        /\ k \in DOMAIN fetched_comments
        /\ fetched_comments[k] >= 1 )
      => /\ Count(k, "CommentAdded") = 1
         /\ \A i \in EventsOf(k, "Created") : \A j \in EventsOf(k, "CommentAdded") : i < j

\* C19: notifications are duplicate-free across cycles, including aborted ones:
\* an issue that the previous cycle announced as new and that is fetched again
\* with the same title and state is not announced as new a second time.
C19_NoDuplicateCreated ==
  \A i \in 1..Len(events) :
    Kind(events[i]) = "Created" => Lookup(issues, events[i].iid) \notin last_created

\* an issue seen from the other platform: GitLab's 'opened' is GitHub's 'open'
ToGithub(issue) ==
  [issue EXCEPT !.state = IF @ = GitlabOpen THEN GithubOpen ELSE @]
ToGitlab(issue) ==
  [issue EXCEPT !.state = IF @ = GithubOpen THEN GitlabOpen ELSE @]
AsGithub(l) == [i \in 1..Len(l) |-> ToGithub(l[i])]
AsGitlab(l) == [i \in 1..Len(l) |-> ToGitlab(l[i])]

\* what an event tells: its kind, its issue key and its status tag
Told(evs) == [i \in 1..Len(evs) |-> <<Kind(evs[i]), evs[i].iid, evs[i].status>>]

\* the inputs the running cycle was fed: where a comment fetch raised, the counts
\* the comment fetches returned, the results of the deliveries
FedStop == IF outcome = "comments_error" THEN idx ELSE 0
FedCounts ==
  [k \in Keys(issues) |-> IF k \in DOMAIN fetched_comments THEN fetched_comments[k] ELSE 0]
FedResults ==
  [j \in 1..MaxSends(start_issues, issues) |->
     IF j <= Len(events) THEN events[j].result ELSE "sent"]

\* what _check_github does on the table and the inputs of the running cycle
GithubTwin ==
  LET prev == AsGithub(start_issues)
      l == AsGithub(issues)
  IN IF prev = <<>>
     THEN [events |-> <<>>, issues |-> l,
           comments |-> GithubSeed(1, l, FedStop, FedCounts, start_comments)]
     ELSE LET diffed == GithubDiff(1, l, FedStop, FedCounts, FedResults,
                                   [events |-> <<>>, comments |-> start_comments], prev)
          IN IF FedStop # 0
             THEN [events |-> diffed.events, issues |-> prev, comments |-> diffed.comments]
             ELSE [events |-> diffed.events
                                \o GithubClosedEvents(prev, l,
                                      SubSeq(FedResults, Len(diffed.events) + 1,
                                             Len(FedResults))),
                   issues |-> GithubCommit(l),
                   comments |-> diffed.comments]

\* what _check_gitlab does on the table and the inputs of the running cycle
GitlabTwin ==
  LET prev == AsGitlab(start_issues)
      l == AsGitlab(issues)
  IN IF prev = <<>>
     THEN [events |-> <<>>, issues |-> l,
           comments |-> GitlabSeed(1, l, FedStop, FedCounts, start_comments)]
     ELSE LET diffed == GitlabDiff(1, l, FedStop, FedCounts, FedResults,
                                   [events |-> <<>>, comments |-> start_comments], prev)
          IN IF FedStop # 0
             THEN [events |-> diffed.events, issues |-> prev, comments |-> diffed.comments]
             ELSE [events |-> diffed.events
                                \o GitlabClosedEvents(prev, l,
                                      SubSeq(FedResults, Len(diffed.events) + 1,
                                             Len(FedResults))),
                   issues |-> GitlabCommit(l),
                   comments |-> diffed.comments]

\* C20: the GitLab check and the GitHub check are the same differ: on the table
\* and the inputs of any cycle of one of them (open state mapped), the other
\* emits the same sequence of event kinds and status tags per issue key and
\* leaves the same table and the same recorded comment counts.
C20_SameDiffer ==
  (CycleOver /\ outcome # "issues_error") =>
    IF platform = "gitlab"
    THEN /\ Told(GithubTwin.events) = Told(events)
         /\ GithubTwin.issues = AsGithub(previous_issues)
         /\ GithubTwin.comments = previous_comments
    ELSE /\ Told(GitlabTwin.events) = Told(events)
         /\ GitlabTwin.issues = AsGitlab(previous_issues)
         /\ GitlabTwin.comments = previous_comments

C20_Witness ==
  /\ CycleOver /\ outcome = "diffed"
  /\ platform = "github"
  /\ Len(events) >= 3
  /\ \E i \in 1..Len(events) : Kind(events[i]) = "Reopened"
  /\ \E i \in 1..Len(events) : Kind(events[i]) = "CommentAdded"
  /\ Told(GitlabTwin.events) = Told(events)

====
